---- MODULE Spec2Model ----
(***************************************************************************)
(* Model of the eve-ship-sprites utilities:                                *)
(*   render_ship.py      - orientation, size lookup, fill ratio, pipeline  *)
(*   copy_to_rebellion.py - the type-ID driven copy batch                  *)
(*   generate_audit_sheet.py - sheet layouts and the audit generator      *)
(*                                                                         *)
(* Conventions.                                                            *)
(*  - A mesh object is a record [dims, rotation_euler, applied]: its       *)
(*    bounding extents <<x, y, z>>, its pending Euler rotation in degrees  *)
(*    and the list of rotations that transform_apply has baked in.         *)
(*  - Angles are multiples of 90 degrees, for which the bounding extents   *)
(*    of the rotated mesh are a permutation of the extents before.         *)
(*  - A Python dict with optional keys is a record with a field "keys"     *)
(*    (the keys present) and one field per possible key.                   *)
(*  - A string holding '/'-separated components is the sequence of its     *)
(*    components.                                                          *)
(***************************************************************************)
EXTENDS Integers, Sequences, FiniteSets, TLC

VARIABLES
    pc,          \* position of the running program
    obj,         \* the mesh object handled by the 3D host
    preObj,      \* the mesh object as it was when the last orient call began
    override,    \* the override dict handed to the orientation step
    called,      \* orientation functions called so far, in order
    ship_size,   \* size in meters handed to calculate_fill_ratio, or NoneSize
    fill_ratio,  \* its result, in units of 1 / (100 * FillUnit)
    other_size,  \* a second size, to compare two calls of calculate_fill_ratio
    other_fill,  \* its result
    output_png,  \* the output path of the render, as its list of parts
    orientations,\* the orientation-override table (ship key -> override dict)
    sizes,       \* the size table
    ship_key,    \* result of get_ship_key(output_png)
    ops,         \* operations the 3D host has been driven through, in order
    dest,        \* DEST_DIR: stem of each PNG file -> its contents
    src_tree,    \* the PNG files below SRC_DIR, in traversal order
    existing_ids,\* sorted(existing_ids) of the copy batch
    idx,         \* number of type IDs the loop has finished
    updated,     \* counter of copied sprites
    missing,     \* list of (type_id, faction, class, name) not resolved
    printed,     \* lines written to standard output, in order
    dest0,       \* DEST_DIR as it was when the batch started
    query,       \* (faction, ship_class, name) handed to find_sprite
    png_tree,    \* the PNG files below SRC_DIR, in traversal order
    sprite,      \* what find_sprite returned for the query
    argv,        \* sys.argv of the renderer
    exit_status, \* exit status of the renderer process, or NoneStatus
    loaded,      \* configuration loaders called so far, in order
    stdout,      \* lines main of the renderer has printed, in order
    mat_faction, \* faction = get_faction_from_path(output_png)
    ortho_scale, \* camera.data.ortho_scale, as model_extent over target_fill
    layout_in,   \* arguments of the sheet function being laid out
    layout,      \* the sheet it draws: image size, cells and blocks
    audit_tree,  \* base_dir of the audit generator: directory -> PNG names
    audit_args,  \* its parsed command line
    runs         \* what each run of the audit generator found and wrote

orientVars == <<obj, preObj, override, called>>
fillVars == <<ship_size, fill_ratio, other_size, other_fill>>

renderVars == <<output_png, orientations, sizes, ship_key, ops>>

vars == <<pc, obj, preObj, override, called,
          ship_size, fill_ratio, other_size, other_fill,
          output_png, orientations, sizes, ship_key, ops,
          dest, src_tree, existing_ids, idx, updated, missing, printed, dest0,
          query, png_tree, sprite,
          argv, exit_status, loaded, stdout,
          mat_faction, ortho_scale,
          layout_in, layout, audit_tree, audit_args, runs>>

copyVars == <<dest, src_tree, existing_ids, idx, updated, missing, printed, dest0>>

findVars == <<query, png_tree, sprite>>

\* the variables of the specifications that follow the first four
mainVars == <<argv, exit_status, loaded, stdout>>

shotVars == <<mat_faction, ortho_scale>>

auditVars == <<layout_in, layout, audit_tree, audit_args, runs>>

restVars == <<findVars, mainVars, shotVars, auditVars>>

----------------------------------------------------------------------------
(* Bounds *)

MaxExtent == 3      \* bounding extents range over 1..MaxExtent
MaxRuns == 2        \* orientation calls per behaviour of SpecOrient
SizeStep == 500     \* sizes in meters range over the multiples of SizeStep ...
MaxSizeIdx == 30    \* ... up to SizeStep * MaxSizeIdx, and the band edges
PowScale == 20      \* fixed-point scale of the fifth root inside pow()

----------------------------------------------------------------------------
(* The mesh object and the host's rotation *)

Extents == 1..MaxExtent

NoRotation == <<0, 0, 0>>

\* obj.dimensions after import, rotation_euler at rest
NewObject(d) == [dims |-> d, rotation_euler |-> NoRotation, applied |-> <<>>]

\* an angle of an odd number of quarter turns exchanges two extents
OddQuarter(a) == (a \div 90) % 2 = 1

SwapYZ(d) == <<d[1], d[3], d[2]>>
SwapXZ(d) == <<d[3], d[2], d[1]>>
SwapXY(d) == <<d[2], d[1], d[3]>>

\* extents of the mesh after an XYZ Euler rotation r (X first, then Y, then Z)
RotatedDims(d, r) ==
    LET d1 == IF OddQuarter(r[1]) THEN SwapYZ(d) ELSE d
        d2 == IF OddQuarter(r[2]) THEN SwapXZ(d1) ELSE d1
    IN  IF OddQuarter(r[3]) THEN SwapXY(d2) ELSE d2

\* obj.rotation_euler.<axis> = math.radians(deg); axis 1 = x, 2 = y, 3 = z
SetEuler(o, axis, deg) ==
    [o EXCEPT !.rotation_euler = [@ EXCEPT ![axis] = deg]]

\* bpy.ops.object.transform_apply(location=False, rotation=True, scale=False)
transform_apply(o) ==
    [o EXCEPT !.dims = RotatedDims(o.dims, o.rotation_euler),
              !.applied = Append(@, o.rotation_euler),
              !.rotation_euler = NoRotation]

----------------------------------------------------------------------------
(* orient_for_topdown *)

\* list.sort(key=lambda d: d[0]) is stable: insert e after every element
\* whose key is less than or equal to its own
RECURSIVE InsertStable(_, _)
InsertStable(e, s) ==
    IF s = <<>> THEN <<e>>
    ELSE IF e[1] < Head(s)[1] THEN <<e>> \o s
    ELSE <<Head(s)>> \o InsertStable(e, Tail(s))

RECURSIVE SortStable(_)
SortStable(s) ==
    IF s = <<>> THEN <<>>
    ELSE InsertStable(s[Len(s)], SortStable(SubSeq(s, 1, Len(s) - 1)))

dim_list(d) == SortStable(<< <<d[1], "x", 0>>, <<d[2], "y", 1>>, <<d[3], "z", 2>> >>)

\* the yaw step shared by both orientation functions: if dims.x > dims.y
YawIfWider(o) ==
    IF o.dims[1] > o.dims[2] THEN transform_apply(SetEuler(o, 3, 90)) ELSE o

orient_for_topdown_noyaw(o) ==
    LET smallest == dim_list(o.dims)[1]
    IN  IF smallest[2] = "x" THEN transform_apply(SetEuler(o, 2, 90))
        ELSE IF smallest[2] = "y" THEN transform_apply(SetEuler(o, 1, 90))
        ELSE o

\* ties ranked from the far end: Z ahead of Y ahead of X
orient_for_topdown_ties_reversed(o) ==
    LET d == o.dims
        o1 == IF d[3] <= d[1] /\ d[3] <= d[2] THEN o
              ELSE IF d[2] <= d[1] THEN transform_apply(SetEuler(o, 1, 90))
              ELSE transform_apply(SetEuler(o, 2, 90))
    IN  YawIfWider(o1)

orient_for_topdown(o) ==
    LET smallest == dim_list(o.dims)[1]
        o1 == IF smallest[2] = "x" THEN transform_apply(SetEuler(o, 2, 90))
              ELSE IF smallest[2] = "y" THEN transform_apply(SetEuler(o, 1, 90))
              ELSE o
    IN  YawIfWider(o1)

----------------------------------------------------------------------------
(* orient_with_override *)

OverrideKeys == {"axis", "rotation", "flip", "rx", "ry", "rz", "scale"}

\* values the override fields take in the model
AxisValues == {"x", "y", "z"}
AngleValues == {0, 90}
ScaleValues == {0, 20}         \* 'scale' multipliers, in tenths
DefaultScale == 11             \* scale_mult = 1.1

\* an override entry: absent fields carry the value that dict.get defaults to
MkOverride(ks, ax, rot, fl, rx, ry, rz, sc) ==
    [isNone |-> FALSE, keys |-> ks, axis |-> ax, rotation |-> rot, flip |-> fl,
     rx |-> rx, ry |-> ry, rz |-> rz, scale |-> sc]

\* Python None in the place of an override dict
NoneOverride ==
    [isNone |-> TRUE, keys |-> {}, axis |-> "z", rotation |-> 0, flip |-> FALSE,
     rx |-> 0, ry |-> 0, rz |-> 0, scale |-> DefaultScale]

Overrides ==
    { MkOverride(ks, ax, rot, fl, rx, ry, rz, sc) :
        ks \in SUBSET OverrideKeys, ax \in AxisValues, rot \in AngleValues,
        fl \in BOOLEAN, rx \in AngleValues, ry \in AngleValues,
        rz \in AngleValues, sc \in ScaleValues \cup {DefaultScale} }

\* one representative per dict: a field that is absent holds its default
Canonical(ov) ==
    /\ ("axis" \notin ov.keys => ov.axis = "z")
    /\ ("rotation" \notin ov.keys => ov.rotation = 0)
    /\ ("flip" \notin ov.keys => ov.flip = FALSE)
    /\ ("rx" \notin ov.keys => ov.rx = 0)
    /\ ("ry" \notin ov.keys => ov.ry = 0)
    /\ ("rz" \notin ov.keys => ov.rz = 0)
    /\ ("scale" \notin ov.keys <=> ov.scale = DefaultScale)

OverrideDicts == { ov \in Overrides : Canonical(ov) }

\* truth value of an override in "if override:" (None and {} are false)
Truthy(ov) == ~ov.isNone /\ ov.keys # {}

HasExplicitAngles(ov) == "rx" \in ov.keys \/ "ry" \in ov.keys \/ "rz" \in ov.keys

\* explicit mode entered on the truth value of the angles, not their presence
orient_with_override_truthy(o, ov) ==
    IF ov.rx # 0 \/ ov.ry # 0 \/ ov.rz # 0
    THEN transform_apply([o EXCEPT !.rotation_euler = <<ov.rx, ov.ry, ov.rz>>])
    ELSE
        LET o1 == IF ov.axis = "x" THEN transform_apply(SetEuler(o, 2, -90))
                  ELSE IF ov.axis = "y" THEN transform_apply(SetEuler(o, 1, 90))
                  ELSE o
            o2 == YawIfWider(o1)
            o3 == IF ov.flip THEN transform_apply(SetEuler(o2, 3, 180)) ELSE o2
        IN  IF ov.rotation # 0
            THEN transform_apply(SetEuler(o3, 3, ov.rotation))
            ELSE o3

orient_with_override(o, ov) ==
    IF HasExplicitAngles(ov)
    THEN transform_apply([o EXCEPT !.rotation_euler = <<ov.rx, ov.ry, ov.rz>>])
    ELSE
        LET o1 == IF ov.axis = "x" THEN transform_apply(SetEuler(o, 2, -90))
                  ELSE IF ov.axis = "y" THEN transform_apply(SetEuler(o, 1, 90))
                  ELSE o
            o2 == YawIfWider(o1)
            o3 == IF ov.flip THEN transform_apply(SetEuler(o2, 3, 180)) ELSE o2
        IN  IF ov.rotation # 0
            THEN transform_apply(SetEuler(o3, 3, ov.rotation))
            ELSE o3

----------------------------------------------------------------------------
(* calculate_fill_ratio *)

REFERENCE_SIZE_METERS == 75
MIN_FILL_RATIO == 85           \* 0.85, in hundredths
MAX_FILL_RATIO == 100          \* 1.0, in hundredths
SCALE_POWER_NUM == 2           \* SCALE_POWER = 0.4 = 2 / 5
SCALE_POWER_DEN == 5
LARGEST_SIZE_METERS == 14000   \* the literal in max_normalized

\* Python None where a size is expected
NoneSize == -1

RECURSIVE IntPow(_, _)
IntPow(b, e) == IF e = 0 THEN 1 ELSE b * IntPow(b, e - 1)

\* floor(PowScale * (size / REFERENCE_SIZE_METERS) ^ (1 / SCALE_POWER_DEN)):
\* the largest r with r^5 * 75 <= PowScale^5 * size
ScaledRoot(size) ==
    LET k == IntPow(PowScale, SCALE_POWER_DEN)
        v == k * (size \div REFERENCE_SIZE_METERS)
             + (k * (size % REFERENCE_SIZE_METERS)) \div REFERENCE_SIZE_METERS
    IN  CHOOSE r \in 0..(3 * PowScale) :
            /\ IntPow(r, SCALE_POWER_DEN) <= v
            /\ IntPow(r + 1, SCALE_POWER_DEN) > v

\* pow(size / REFERENCE_SIZE_METERS, SCALE_POWER) - 1,
\* in units of 1 / PowScale^2
ScaledMinus1(size) ==
    IntPow(ScaledRoot(size), SCALE_POWER_NUM) - IntPow(PowScale, SCALE_POWER_NUM)

\* max_normalized - 1 in the same units; a fill ratio f is held as the
\* integer f * 100 * FillUnit
FillUnit == ScaledMinus1(LARGEST_SIZE_METERS)

MinOf(a, b) == IF a <= b THEN a ELSE b
MaxOf(a, b) == IF a >= b THEN a ELSE b

\* the sign of (scaled - 1) reversed
calculate_fill_ratio_reversed(size_meters) ==
    IF size_meters = NoneSize THEN MAX_FILL_RATIO * FillUnit
    ELSE LET fill == MIN_FILL_RATIO * FillUnit
                     - (MAX_FILL_RATIO - MIN_FILL_RATIO) * ScaledMinus1(size_meters)
         IN  MaxOf(MIN_FILL_RATIO * FillUnit, MinOf(MAX_FILL_RATIO * FillUnit, fill))

\* the clamp from below only
calculate_fill_ratio_noceiling(size_meters) ==
    IF size_meters = NoneSize THEN MAX_FILL_RATIO * FillUnit
    ELSE LET fill == MIN_FILL_RATIO * FillUnit
                     + (MAX_FILL_RATIO - MIN_FILL_RATIO) * ScaledMinus1(size_meters)
         IN  MaxOf(MIN_FILL_RATIO * FillUnit, fill)

calculate_fill_ratio(size_meters) ==
    IF size_meters = NoneSize THEN MAX_FILL_RATIO * FillUnit
    ELSE LET fill == MIN_FILL_RATIO * FillUnit
                     + (MAX_FILL_RATIO - MIN_FILL_RATIO) * ScaledMinus1(size_meters)
         IN  MaxOf(MIN_FILL_RATIO * FillUnit, MinOf(MAX_FILL_RATIO * FillUnit, fill))

----------------------------------------------------------------------------
(* get_ship_key and get_ship_size *)

\* one part of a path: a directory name, or a file name with its extension
Dir(name) == [stem |-> name, ext |-> ""]
File(stem, ext) == [stem |-> stem, ext |-> ext]

main_factions ==
    {"amarr", "caldari", "gallente", "minmatar", "pirate", "ore", "jove",
     "concord", "triglavian", "sleeper", "rogue", "special_edition", "upwell"}

\* part in main_factions
IsMainFaction(part) == part.ext = "" /\ part.stem \in main_factions

\* Python None where a ship key is expected
NoneKey == <<>>

\* parts is output_path split at the separators; index j here is i + 1 there
get_ship_key(parts) ==
    LET n == Len(parts)
        ship_name == parts[n].stem
        hits == { j \in 1..n : IsMainFaction(parts[j]) /\ j + 1 <= n }
    IN  IF hits = {} THEN NoneKey
        ELSE LET j == CHOOSE h \in hits : \A g \in hits : h <= g
             IN  IF j + 2 <= n
                 THEN <<parts[j].stem, parts[j + 1].stem, ship_name>>
                 ELSE <<parts[j].stem, ship_name>>

\* the function with the given set of <<key, value>> pairs as its graph
\* the keys of FACTION_MATERIALS but '_default', in the order of the dict
FactionMaterialKeys ==
    <<"amarr", "caldari", "gallente", "minmatar", "pirate", "triglavian",
      "sleeper", "rogue", "concord", "ore", "jove", "nation", "raiders",
      "upwell">>

\* str.lower(), on the directory names the paths use
LowerStr(w) ==
    CASE w = "AMARR" -> "amarr"
      [] w = "Pirate" -> "pirate"
      [] OTHER -> w

\* the lower-cased text of a part is the name f
PartIs(part, f) == part.ext = "" /\ LowerStr(part.stem) = f

\* parts is output_path split at the separators: '/{faction}/' is in the
\* path when a part that is neither the first nor the last is the faction
get_faction_from_path(parts) ==
    LET n == Len(parts)
        m == Len(FactionMaterialKeys)
        inner == { k \in 1..m :
                     \E j \in 2..(n - 1) : PartIs(parts[j], FactionMaterialKeys[k]) }
        named == { j \in 1..n :
                     \E k \in 1..m : PartIs(parts[j], FactionMaterialKeys[k]) }
    IN  IF inner # {}
        THEN FactionMaterialKeys[CHOOSE k \in inner : \A g \in inner : k <= g]
        ELSE IF named # {}
        THEN LowerStr(parts[CHOOSE j \in named : \A g \in named : j <= g].stem)
        ELSE "_default"

MkTable(pairs) ==
    [k \in { p[1] : p \in pairs } |-> (CHOOSE p \in pairs : p[1] = k)[2]]

\* a size table: its entries by ship key, and the '_class_defaults' entry
MkSizes(e, h, c) ==
    [isNone |-> FALSE, exact |-> MkTable(e), has_class_defaults |-> h,
     class_defaults |-> MkTable(c)]

NoneSizes ==
    [isNone |-> TRUE, exact |-> MkTable({}), has_class_defaults |-> FALSE,
     class_defaults |-> MkTable({})]

\* not sizes_data
SizesFalsy(sd) ==
    sd.isNone \/ (DOMAIN sd.exact = {} /\ ~sd.has_class_defaults)

\* sizes_data.get('_class_defaults', {})
ClassDefaults(sd) ==
    IF sd.has_class_defaults THEN sd.class_defaults ELSE MkTable({})

\* the class default consulted before the exact entry
get_ship_size_class_first(key, sd) ==
    IF SizesFalsy(sd) \/ key = NoneKey THEN NoneSize
    ELSE IF Len(key) >= 2 /\ key[2] \in DOMAIN ClassDefaults(sd)
         THEN ClassDefaults(sd)[key[2]]
    ELSE IF key \in DOMAIN sd.exact THEN sd.exact[key]
    ELSE NoneSize

get_ship_size(key, sd) ==
    IF SizesFalsy(sd) \/ key = NoneKey THEN NoneSize
    ELSE IF key \in DOMAIN sd.exact THEN sd.exact[key]
    ELSE IF Len(key) >= 2 /\ key[2] \in DOMAIN ClassDefaults(sd)
         THEN ClassDefaults(sd)[key[2]]
    ELSE NoneSize

\* orientations.get(ship_key) behind "if orientations and ship_key"
LookupOverride(table, key) ==
    IF DOMAIN table # {} /\ key # NoneKey /\ key \in DOMAIN table
    THEN table[key]
    ELSE NoneOverride

----------------------------------------------------------------------------
(* copy_to_rebellion.py: names, the source tree and find_sprite *)

\* A file stem or ship name is the sequence of its characters.
DigitChars == <<"0", "1", "2", "3", "4", "5", "6", "7", "8", "9">>

IsDigit(c) == \E d \in 1..10 : DigitChars[d] = c
DigitValue(c) == (CHOOSE d \in 1..10 : DigitChars[d] = c) - 1

\* int(f.stem) succeeds (no ValueError)
IsInt(stem) == Len(stem) > 0 /\ \A i \in 1..Len(stem) : IsDigit(stem[i])

RECURSIVE ParseInt(_)
ParseInt(stem) ==
    IF stem = <<>> THEN 0
    ELSE 10 * ParseInt(SubSeq(stem, 1, Len(stem) - 1)) + DigitValue(stem[Len(stem)])

\* f"{type_id}"
RECURSIVE FormatInt(_)
FormatInt(n) ==
    IF n < 10 THEN <<DigitChars[n + 1]>>
    ELSE FormatInt(n \div 10) \o <<DigitChars[(n % 10) + 1]>>

\* str.lower(), on the upper-case letters the names use
LowerChar(c) ==
    CASE c = "A" -> "a"
      [] c = "B" -> "b"
      [] OTHER -> c

Lower(str) == [i \in 1..Len(str) |-> LowerChar(str[i])]

\* a in b, for strings
IsSubstring(a, b) ==
    \E i \in 1..(Len(b) - Len(a) + 1) : SubSeq(b, i, i + Len(a) - 1) = a

Name_bantam == <<"b", "a", "n", "t", "a", "m">>
Name_Ashimmu == <<"A", "s", "h", "i", "m", "m", "u">>
Name_damavik == <<"d", "a", "m", "a", "v", "i", "k">>

\* the entries of TYPE_MAP the model carries
TYPE_MAP ==
    MkTable({ <<583, <<"caldari", "frigate", Name_bantam>>>>,
              <<24483, <<"pirate", "blood raiders", Name_Ashimmu>>>>,
              <<47269, <<"triglavian", "", Name_damavik>>>> })

\* a PNG file below SRC_DIR: SRC_DIR / faction / dirs... / stem.png
SrcFile(faction, dirs, stem, tag) ==
    [faction |-> faction, dirs |-> dirs, stem |-> stem, tag |-> tag]

\* Python None where a path is expected
NoneFile == SrcFile("", <<>>, <<>>, "None")

\* SRC_DIR / faction / ship_class: an empty component adds nothing
ClassDirs(ship_class) == IF ship_class = "" THEN <<>> ELSE <<ship_class>>

\* the file at SRC_DIR / faction / dirs / stem.png, or NoneFile
FileAt(tree, faction, dirs, stem) ==
    LET hits == { i \in 1..Len(tree) :
                    /\ tree[i].faction = faction
                    /\ tree[i].dirs = dirs
                    /\ tree[i].stem = stem }
    IN  IF hits = {} THEN NoneFile ELSE tree[CHOOSE i \in hits : TRUE]

\* the traversal looks for an exact stem first and for a substring second
find_sprite_exact_first(faction, ship_class, name, tree) ==
    LET a1 == FileAt(tree, faction, ClassDirs(ship_class), name)
        a2 == FileAt(tree, faction, ClassDirs(ship_class), Lower(name))
        a3 == FileAt(tree, faction, <<>>, name)
        exact == { i \in 1..Len(tree) :
                     /\ tree[i].faction = faction
                     /\ Lower(tree[i].stem) = Lower(name) }
        part == { i \in 1..Len(tree) :
                    /\ tree[i].faction = faction
                    /\ IsSubstring(Lower(name), Lower(tree[i].stem)) }
    IN  IF a1 # NoneFile THEN a1
        ELSE IF a2 # NoneFile THEN a2
        ELSE IF a3 # NoneFile THEN a3
        ELSE IF exact # {} THEN tree[CHOOSE i \in exact : \A j \in exact : i <= j]
        ELSE IF part # {} THEN tree[CHOOSE i \in part : \A j \in part : i <= j]
        ELSE NoneFile

find_sprite(faction, ship_class, name, tree) ==
    LET a1 == FileAt(tree, faction, ClassDirs(ship_class), name)
        a2 == FileAt(tree, faction, ClassDirs(ship_class), Lower(name))
        a3 == FileAt(tree, faction, <<>>, name)
        found == { i \in 1..Len(tree) :
                     /\ tree[i].faction = faction
                     /\ \/ Lower(tree[i].stem) = Lower(name)
                        \/ IsSubstring(Lower(name), Lower(tree[i].stem)) }
    IN  IF a1 # NoneFile THEN a1
        ELSE IF a2 # NoneFile THEN a2
        ELSE IF a3 # NoneFile THEN a3
        ELSE IF found = {} THEN NoneFile
        ELSE tree[CHOOSE i \in found : \A j \in found : i <= j]

\* the elements of a finite set, in some order
RECURSIVE SetToSeq(_)
SetToSeq(S) ==
    IF S = {} THEN <<>>
    ELSE LET e == CHOOSE x \in S : TRUE
         IN  <<e>> \o SetToSeq(S \ {e})

\* existing_ids: int(f.stem) of every file of DEST_DIR for which it succeeds
ExistingIds(d) ==
    LET stems == SetToSeq({ st \in DOMAIN d : IsInt(st) })
    IN  [i \in 1..Len(stems) |-> ParseInt(stems[i])]

\* sorted(existing_ids)
Sorted(ids) ==
    LET keyed == SortStable([i \in 1..Len(ids) |-> <<ids[i]>>])
    IN  [i \in 1..Len(keyed) |-> keyed[i][1]]

\* shutil.copy2(src, DEST_DIR / f"{type_id}.png")
Copied(d, type_id, src) ==
    LET name == FormatInt(type_id)
    IN  [k \in DOMAIN d \cup {name} |-> IF k = name THEN src.tag ELSE d[k]]

----------------------------------------------------------------------------
(* SpecOrient: the two orientation functions applied to every extent *)

\* values of the variables a specification does not use
IdleOrient ==
    /\ obj = NewObject(<<1, 1, 1>>)
    /\ preObj = obj
    /\ override = NoneOverride
    /\ called = <<>>

IdleFill ==
    /\ ship_size = NoneSize
    /\ fill_ratio = 0
    /\ other_size = NoneSize
    /\ other_fill = 0

IdleRender ==
    /\ output_png = <<>>
    /\ orientations = MkTable({})
    /\ sizes = NoneSizes
    /\ ship_key = NoneKey
    /\ ops = <<>>

IdleCopy ==
    /\ dest = MkTable({})
    /\ src_tree = <<>>
    /\ existing_ids = <<>>
    /\ idx = 0
    /\ updated = 0
    /\ missing = <<>>
    /\ printed = <<>>
    /\ dest0 = dest

IdleFind ==
    /\ query = <<"", "", <<>>>>
    /\ png_tree = <<>>
    /\ sprite = NoneFile

\* the process has not ended
NoneStatus == -1

IdleMain ==
    /\ argv = <<>>
    /\ exit_status = NoneStatus
    /\ loaded = <<>>
    /\ stdout = <<>>

\* no camera yet
NoneScale == [model_extent |-> 0, target_fill |-> 0]

IdleShot ==
    /\ mat_faction = ""
    /\ ortho_scale = NoneScale

IdleAudit ==
    /\ layout_in = [kind |-> "none", counts |-> <<>>, cols |-> 0, thumb_size |-> 0]
    /\ layout = [width |-> 0, height |-> 0, cells |-> {}, blocks |-> <<>>]
    /\ audit_tree = <<>>
    /\ audit_args = [output |-> "", all |-> FALSE]
    /\ runs = <<>>

IdleRest ==
    /\ IdleFind
    /\ IdleMain
    /\ IdleShot
    /\ IdleAudit

\* a mesh wider than long with its height on Z
ExampleExtents == <<120, 40, 20>>

InitOrient ==
    /\ IdleRest
    /\ pc = "apply"
    /\ IdleFill
    /\ IdleRender
    /\ IdleCopy
    /\ obj \in { NewObject(<<x, y, z>>) : x \in Extents, y \in Extents, z \in Extents }
               \cup { NewObject(ExampleExtents) }
    /\ preObj = obj
    /\ override \in OverrideDicts
    /\ called = <<>>

CallOrientForTopdown ==
    /\ pc = "apply"
    /\ Len(called) < MaxRuns
    /\ preObj' = obj
    /\ obj' = orient_for_topdown(obj)
    /\ called' = Append(called, "orient_for_topdown")
    /\ UNCHANGED <<pc, override, fillVars, renderVars, copyVars, restVars>>

CallOrientWithOverride ==
    /\ pc = "apply"
    /\ Len(called) < MaxRuns
    /\ preObj' = obj
    /\ obj' = orient_with_override(obj, override)
    /\ called' = Append(called, "orient_with_override")
    /\ UNCHANGED <<pc, override, fillVars, renderVars, copyVars, restVars>>

NextOrient == CallOrientForTopdown \/ CallOrientWithOverride

SpecOrient == InitOrient /\ [][NextOrient]_vars

----------------------------------------------------------------------------
(* SpecFill: calculate_fill_ratio applied to two sizes *)

Sizes ==
    { SizeStep * i : i \in 0..MaxSizeIdx }
    \cup { 1, REFERENCE_SIZE_METERS - 1, REFERENCE_SIZE_METERS,
           REFERENCE_SIZE_METERS + 1, LARGEST_SIZE_METERS - 1,
           LARGEST_SIZE_METERS + 1 }

InitFill ==
    /\ IdleRest
    /\ pc = "fill"
    /\ IdleOrient
    /\ IdleRender
    /\ IdleCopy
    /\ ship_size \in Sizes \cup {NoneSize}
    /\ other_size \in Sizes \cup {NoneSize}
    /\ fill_ratio = 0
    /\ other_fill = 0

CalcFill ==
    /\ pc = "fill"
    /\ fill_ratio' = calculate_fill_ratio(ship_size)
    /\ other_fill' = calculate_fill_ratio(other_size)
    /\ pc' = "filled"
    /\ UNCHANGED <<orientVars, ship_size, other_size, renderVars, copyVars, restVars>>

NextFill == CalcFill

SpecFill == InitFill /\ [][NextFill]_vars

----------------------------------------------------------------------------
(* SpecRender: render_ship, one step per operation on the 3D host *)

KeyFull == <<"amarr", "frigate", "punisher">>
KeyShort == <<"amarr", "punisher">>

OutputPaths ==
    { <<Dir("out"), Dir("amarr"), Dir("frigate"), File("punisher", "png")>>,
      <<Dir("out"), Dir("amarr"), File("punisher", "png")>>,
      <<Dir("out"), Dir("misc"), File("punisher", "png")>>,
      <<Dir("amarr"), Dir("frigate"), Dir("t1"), File("punisher", "png")>>,
      <<Dir("out"), Dir("amarr")>>,
      <<Dir("pirate"), Dir("amarr"), File("punisher", "png")>> }

\* override entries of the table: {}, {'scale': 2.0}, {'scale': 0},
\* {'axis': 'x'}, {'rz': 0}, {'flip': true, 'rotation': 90}
EntryDicts ==
    { MkOverride({}, "z", 0, FALSE, 0, 0, 0, DefaultScale),
      MkOverride({"scale"}, "z", 0, FALSE, 0, 0, 0, 20),
      MkOverride({"scale"}, "z", 0, FALSE, 0, 0, 0, 0),
      MkOverride({"axis"}, "x", 0, FALSE, 0, 0, 0, DefaultScale),
      MkOverride({"rz"}, "z", 0, FALSE, 0, 0, 0, DefaultScale),
      MkOverride({"flip", "rotation"}, "z", 90, TRUE, 0, 0, 0, DefaultScale) }

OrientationTables ==
    { MkTable(a \cup b) :
        a \in {{}} \cup { {<<KeyFull, ov>>} : ov \in EntryDicts },
        b \in { {}, {<<KeyShort, MkOverride({"axis"}, "y", 0, FALSE, 0, 0, 0,
                                            DefaultScale)>>} } }

SizeTables ==
    {NoneSizes} \cup
    { MkSizes(e, h, c) :
        e \in SUBSET {<<KeyFull, 5000>>, <<KeyShort, 75>>},
        h \in BOOLEAN,
        c \in SUBSET {<<"frigate", 400>>, <<"punisher", 1000>>} }

InitRender ==
    /\ IdleRest
    /\ pc = "clear"
    /\ obj \in { NewObject(<<x, y, z>>) : x \in Extents, y \in Extents, z \in Extents }
    /\ preObj = obj
    /\ override = NoneOverride
    /\ called = <<>>
    /\ IdleFill
    /\ output_png \in OutputPaths
    /\ orientations \in OrientationTables
    /\ sizes \in { sd \in SizeTables : sd.has_class_defaults \/ DOMAIN sd.class_defaults = {} }
    /\ ship_key = NoneKey
    /\ ops = <<>>
    /\ IdleCopy

\* one call on the host: op is logged and the program moves on
HostStep(from, op, to) ==
    /\ pc = from
    /\ ops' = Append(ops, op)
    /\ pc' = to

ClearScene ==
    /\ HostStep("clear", "clear_scene", "import")
    /\ UNCHANGED <<orientVars, fillVars, output_png, orientations, sizes, ship_key, copyVars, restVars>>

\* import_stl; the import raises on a file the host cannot read
ImportStl ==
    /\ \/ HostStep("import", "import_mesh", "recenter1")
       \/ /\ pc = "import"
          /\ pc' = "import_failed"
          /\ UNCHANGED ops
    /\ UNCHANGED <<orientVars, fillVars, output_png, orientations, sizes, ship_key, copyVars, restVars>>

Recenter ==
    /\ HostStep("recenter1", "recenter", "lookup")
    /\ UNCHANGED <<orientVars, fillVars, output_png, orientations, sizes, ship_key, copyVars, restVars>>

\* ship key, override, ship size and fill ratio
Lookup ==
    /\ pc = "lookup"
    /\ ship_key' = get_ship_key(output_png)
    /\ override' = LookupOverride(orientations, ship_key')
    /\ ship_size' = get_ship_size(ship_key', sizes)
    /\ fill_ratio' = calculate_fill_ratio(ship_size')
    /\ pc' = "orient"
    /\ UNCHANGED <<obj, preObj, called, other_size, other_fill,
                   output_png, orientations, sizes, ops, copyVars, restVars>>

Orient ==
    /\ HostStep("orient", "apply_orientation", "recenter2")
    /\ preObj' = obj
    /\ IF Truthy(override)
       THEN /\ obj' = orient_with_override(obj, override)
            /\ called' = Append(called, "orient_with_override")
       ELSE /\ obj' = orient_for_topdown(obj)
            /\ called' = Append(called, "orient_for_topdown")
    /\ UNCHANGED <<override, fillVars, output_png, orientations, sizes, ship_key, copyVars, restVars>>

\* the second recentering left out
ReRecenter_skipped ==
    /\ pc = "recenter2"
    /\ pc' = "material"
    /\ UNCHANGED <<ops, orientVars, fillVars, output_png, orientations, sizes, ship_key, copyVars, restVars>>

ReRecenter ==
    /\ HostStep("recenter2", "recenter", "material")
    /\ UNCHANGED <<orientVars, fillVars, output_png, orientations, sizes, ship_key, copyVars, restVars>>

\* faction = get_faction_from_path(output_png); setup_material(obj, faction)
SetupMaterial ==
    /\ HostStep("material", "assign_material", "camera")
    /\ mat_faction' = get_faction_from_path(output_png)
    /\ UNCHANGED <<orientVars, fillVars, output_png, orientations, sizes, ship_key, copyVars>>
    /\ UNCHANGED <<findVars, mainVars, ortho_scale, auditVars>>

\* scale_mult of setup_camera_topdown, in tenths
ScaleMult(ov) == IF Truthy(ov) /\ "scale" \in ov.keys THEN ov.scale ELSE DefaultScale

\* max(dims.x, dims.y)
ModelExtent(o) == IF o.dims[1] >= o.dims[2] THEN o.dims[1] ELSE o.dims[2]

\* ortho_scale = model_extent / target_fill with target_fill = fill_ratio *
\* scale_mult, kept as the pair; target_fill is in units of
\* 1 / (1000 * FillUnit)
OrthoScale(o, ov, fill) ==
    [model_extent |-> ModelExtent(o), target_fill |-> fill * ScaleMult(ov)]

\* model_extent / target_fill raises when target_fill is zero
SetupCamera ==
    /\ IF fill_ratio * ScaleMult(override) = 0
       THEN /\ pc = "camera"
            /\ pc' = "camera_failed"
            /\ UNCHANGED <<ops, ortho_scale>>
       ELSE /\ HostStep("camera", "place_camera", "lights")
            /\ ortho_scale' = OrthoScale(obj, override, fill_ratio)
    /\ UNCHANGED <<orientVars, fillVars, output_png, orientations, sizes, ship_key, copyVars>>
    /\ UNCHANGED <<findVars, mainVars, mat_faction, auditVars>>

SetupLighting ==
    /\ HostStep("lights", "place_lights", "settings")
    /\ UNCHANGED <<orientVars, fillVars, output_png, orientations, sizes, ship_key, copyVars, restVars>>

SetupRenderSettings ==
    /\ HostStep("settings", "render_settings", "render")
    /\ UNCHANGED <<orientVars, fillVars, output_png, orientations, sizes, ship_key, copyVars, restVars>>

Render ==
    /\ HostStep("render", "render", "done")
    /\ UNCHANGED <<orientVars, fillVars, output_png, orientations, sizes, ship_key, copyVars, restVars>>

NextRender ==
    \/ ClearScene \/ ImportStl \/ Recenter \/ Lookup \/ Orient \/ ReRecenter
    \/ SetupMaterial \/ SetupCamera \/ SetupLighting \/ SetupRenderSettings
    \/ Render

SpecRender == InitRender /\ [][NextRender]_vars

----------------------------------------------------------------------------
(* SpecCopy: main of copy_to_rebellion.py, one step per loop iteration *)

Stem_583 == <<"5", "8", "3">>
Stem_0583 == <<"0", "5", "8", "3">>
Stem_24483 == <<"2", "4", "4", "8", "3">>
Stem_47269 == <<"4", "7", "2", "6", "9">>
Stem_999 == <<"9", "9", "9">>
Stem_readme == <<"r", "e", "a", "d", "m", "e">>

DestStems == {Stem_583, Stem_0583, Stem_24483, Stem_47269, Stem_999, Stem_readme}

\* source files the trees are built from, in traversal order
SourceFiles ==
    << SrcFile("caldari", <<"frigate">>,
               <<"B", "a", "n", "t", "a", "m", "_", "v", "2">>,
               "caldari/frigate/Bantam_v2.png"),
       SrcFile("caldari", <<"frigate">>, Name_bantam,
               "caldari/frigate/bantam.png"),
       SrcFile("pirate", <<"blood raiders">>, Lower(Name_Ashimmu),
               "pirate/blood raiders/ashimmu.png"),
       SrcFile("triglavian", <<>>, Name_damavik,
               "triglavian/damavik.png") >>

IsKept(keep, f) == \E i \in keep : SourceFiles[i] = f

\* the trees: every subset of SourceFiles, in the order of SourceFiles
SourceTrees ==
    { SelectSeq(SourceFiles, LAMBDA f : IsKept(keep, f)) :
        keep \in SUBSET (1..Len(SourceFiles)) }

InitCopy ==
    /\ IdleRest
    /\ pc = "scan"
    /\ IdleOrient
    /\ IdleFill
    /\ IdleRender
    /\ dest \in { [st \in D |-> "original"] : D \in SUBSET DestStems }
    /\ src_tree \in SourceTrees
    /\ existing_ids = <<>>
    /\ idx = 0
    /\ updated = 0
    /\ missing = <<>>
    /\ printed = <<>>
    /\ dest0 = dest

\* mkdir, the scan of DEST_DIR and the first print
ScanDest ==
    /\ pc = "scan"
    /\ existing_ids' = Sorted(ExistingIds(dest))
    /\ printed' = Append(printed, <<"Updating", Len(existing_ids')>>)
    /\ pc' = "loop"
    /\ UNCHANGED <<dest, src_tree, idx, updated, missing, dest0>>
    /\ UNCHANGED <<orientVars, fillVars, renderVars, restVars>>

\* the type ID of the iteration about to run
Current == existing_ids[idx + 1]

\* a source file is handed out once: files already copied are passed over
Found_unused ==
    LET used == { dest[k] : k \in DOMAIN dest }
        rest == SelectSeq(src_tree, LAMBDA f : f.tag \notin used)
    IN  find_sprite(TYPE_MAP[Current][1], TYPE_MAP[Current][2],
                    TYPE_MAP[Current][3], rest)

Found == find_sprite(TYPE_MAP[Current][1], TYPE_MAP[Current][2],
                     TYPE_MAP[Current][3], src_tree)

\* type_id in TYPE_MAP, src found, copy2 returns
HandleCopied ==
    /\ Current \in DOMAIN TYPE_MAP
    /\ Found # NoneFile
    /\ dest' = Copied(dest, Current, Found)
    /\ printed' = Append(printed, <<Current, "OK">>)
    /\ updated' = updated + 1
    /\ idx' = idx + 1
    /\ UNCHANGED <<pc, missing>>

\* type_id in TYPE_MAP, src found, copy2 raises: nothing catches it
HandleCopyRaises ==
    /\ Current \in DOMAIN TYPE_MAP
    /\ Found # NoneFile
    /\ pc' = "crashed"
    /\ UNCHANGED <<dest, printed, updated, idx, missing>>

\* type_id in TYPE_MAP, find_sprite returns None
HandleNotFound ==
    /\ Current \in DOMAIN TYPE_MAP
    /\ Found = NoneFile
    /\ missing' = Append(missing, <<Current, TYPE_MAP[Current][1],
                                    TYPE_MAP[Current][2], TYPE_MAP[Current][3]>>)
    /\ printed' = Append(printed, <<Current, "NOT FOUND">>)
    /\ idx' = idx + 1
    /\ UNCHANGED <<pc, dest, updated>>

\* the loop left at the first type ID without a mapping
HandleNoMapping_break ==
    /\ Current \notin DOMAIN TYPE_MAP
    /\ missing' = Append(missing, <<Current, "unknown", "", <<>>>>)
    /\ printed' = Append(printed, <<Current, "NO MAPPING">>)
    /\ idx' = Len(existing_ids)
    /\ UNCHANGED <<pc, dest, updated>>

\* type_id not in TYPE_MAP
HandleNoMapping ==
    /\ Current \notin DOMAIN TYPE_MAP
    /\ missing' = Append(missing, <<Current, "unknown", "", <<>>>>)
    /\ printed' = Append(printed, <<Current, "NO MAPPING">>)
    /\ idx' = idx + 1
    /\ UNCHANGED <<pc, dest, updated>>

\* one iteration of "for type_id in sorted(existing_ids)"
ProcessNext ==
    /\ pc = "loop"
    /\ idx < Len(existing_ids)
    /\ \/ HandleCopied
       \/ HandleCopyRaises
       \/ HandleNotFound
       \/ HandleNoMapping
    /\ UNCHANGED <<src_tree, existing_ids, dest0>>
    /\ UNCHANGED <<orientVars, fillVars, renderVars, restVars>>

\* the loop is exhausted: the summary is printed
Summary ==
    /\ pc = "loop"
    /\ idx = Len(existing_ids)
    /\ printed' = Append(printed, <<"Updated", updated, "Missing", Len(missing)>>)
    /\ pc' = "done"
    /\ UNCHANGED <<dest, src_tree, existing_ids, idx, updated, missing, dest0>>
    /\ UNCHANGED <<orientVars, fillVars, renderVars, restVars>>

NextCopy == ScanDest \/ ProcessNext \/ Summary

SpecCopy == InitCopy /\ [][NextCopy]_vars

----------------------------------------------------------------------------
(* SpecCopyAnyOrder: the same batch with the type IDs taken in any order *)

\* every arrangement of the elements of ids
Arrangements(ids) ==
    LET n == Len(ids)
    IN  { [i \in 1..n |-> ids[f[i]]] :
            f \in { g \in [1..n -> 1..n] :
                       \A a \in 1..n : \A b \in 1..n : g[a] = g[b] => a = b } }

\* the scan of DEST_DIR, with the loop order left open instead of sorted()
ScanDestAnyOrder ==
    /\ pc = "scan"
    /\ existing_ids' \in Arrangements(ExistingIds(dest))
    /\ printed' = Append(printed, <<"Updating", Len(existing_ids')>>)
    /\ pc' = "loop"
    /\ UNCHANGED <<dest, src_tree, idx, updated, missing, dest0>>
    /\ UNCHANGED <<orientVars, fillVars, renderVars, restVars>>

NextCopyAnyOrder == ScanDestAnyOrder \/ ProcessNext \/ Summary

SpecCopyAnyOrder == InitCopy /\ [][NextCopyAnyOrder]_vars

\* the body of the loop for one type ID, on the triple (dest, updated, missing)
LoopBody(r, type_id, tree) ==
    IF type_id \in DOMAIN TYPE_MAP
    THEN LET src == find_sprite(TYPE_MAP[type_id][1], TYPE_MAP[type_id][2],
                                TYPE_MAP[type_id][3], tree)
         IN  IF src # NoneFile
             THEN [r EXCEPT !.dest = Copied(r.dest, type_id, src),
                            !.updated = r.updated + 1]
             ELSE [r EXCEPT !.missing = Append(r.missing,
                       <<type_id, TYPE_MAP[type_id][1], TYPE_MAP[type_id][2],
                         TYPE_MAP[type_id][3]>>)]
    ELSE [r EXCEPT !.missing = Append(r.missing, <<type_id, "unknown", "", <<>>>>)]

\* the whole loop over ids, every copy succeeding
RECURSIVE RunLoop(_, _, _)
RunLoop(r, ids, tree) ==
    IF ids = <<>> THEN r
    ELSE RunLoop(LoopBody(r, Head(ids), tree), Tail(ids), tree)

\* the outcome of main on DEST_DIR d: the type IDs in ascending order
MainOutcome(d, tree) ==
    RunLoop([dest |-> d, updated |-> 0, missing |-> <<>>],
            Sorted(ExistingIds(d)), tree)

----------------------------------------------------------------------------
(* Properties of the orientation functions (SpecOrient) *)

Min3(d) == IF d[1] <= d[2] /\ d[1] <= d[3] THEN d[1]
           ELSE IF d[2] <= d[3] THEN d[2] ELSE d[3]
Max3(d) == IF d[1] >= d[2] /\ d[1] >= d[3] THEN d[1]
           ELSE IF d[2] >= d[3] THEN d[2] ELSE d[3]

LastCalled == IF called = <<>> THEN "none" ELSE called[Len(called)]

\* dict.get(k, 0) of an angle field
AngleOr0(ov, k) == IF k \in ov.keys THEN ov[k] ELSE 0

\* C1: after orient_for_topdown the extent along Z is the minimum of the
\* three extents the mesh had before the call and the extent along Y is
\* their maximum, for every ordering of the extents, ties included.
C1_SmallestUpLargestForward ==
    LastCalled = "orient_for_topdown" =>
        /\ obj.dims[3] = Min3(preObj.dims)
        /\ obj.dims[2] = Max3(preObj.dims)

\* a tie between Y and Z with X the largest: both the correction and the yaw
C1_Witness ==
    /\ called = <<"orient_for_topdown">>
    /\ preObj.dims = <<3, 1, 1>>
    /\ obj.dims = <<1, 3, 1>>
    /\ obj.applied = << <<90, 0, 0>>, <<0, 0, 90>> >>

\* C2: when the smallest extent is already on Z (z <= x and z <= y) and
\* x <= y, ties included, orient_for_topdown applies no rotation.
C2_NoRotationWhenOriented ==
    ( /\ LastCalled = "orient_for_topdown"
      /\ preObj.dims[3] <= preObj.dims[1]
      /\ preObj.dims[3] <= preObj.dims[2]
      /\ preObj.dims[1] <= preObj.dims[2] )
    => obj.applied = preObj.applied

\* C3: an override with any of rx, ry, rz present (also with value 0) makes
\* orient_with_override apply exactly the rotation (rx, ry, rz), absent
\* angles as 0, once, and none of the axis, yaw, flip or fine-tune steps.
C3_ExplicitAnglesOnly ==
    ( LastCalled = "orient_with_override" /\ HasExplicitAngles(override) )
    => /\ obj.applied = Append(preObj.applied,
              <<AngleOr0(override, "rx"), AngleOr0(override, "ry"),
                AngleOr0(override, "rz")>>)
       /\ obj.rotation_euler = NoRotation

\* only rz is given, as 0, next to an axis, a flip and a fine-tune rotation,
\* on a mesh wider than long
C3_Witness ==
    /\ called = <<"orient_with_override">>
    /\ override.keys = {"rz", "axis", "flip", "rotation"}
    /\ override.rz = 0 /\ override.axis = "x" /\ override.flip
    /\ override.rotation = 90
    /\ preObj.dims = <<3, 1, 2>>
    /\ obj.applied = << <<0, 0, 0>> >>
    /\ obj.dims = preObj.dims

\* the rotations the decision table lists for extents d
TablePlan(d) ==
    LET corr == IF d[1] <= d[2] /\ d[1] <= d[3] THEN << <<0, 90, 0>> >>
                ELSE IF d[2] < d[1] /\ d[2] <= d[3] THEN << <<90, 0, 0>> >>
                ELSE <<>>
        after == IF d[1] <= d[2] /\ d[1] <= d[3] THEN <<d[3], d[2], d[1]>>
                 ELSE IF d[2] < d[1] /\ d[2] <= d[3] THEN <<d[1], d[3], d[2]>>
                 ELSE d
        yaw == IF after[1] > after[2] THEN << <<0, 0, 90>> >> ELSE <<>>
    IN  corr \o yaw

\* C15: orient_for_topdown applies the decision table and nothing else: with
\* ties ranked X before Y before Z, a quarter turn about Y iff X is ranked
\* smallest, about X iff Y is ranked smallest, none if Z is; then a quarter
\* turn about Z iff the X extent after the correction is strictly greater
\* than the Y extent. For extents (120, 40, 20) the plan is the single yaw.
C15_DecisionTable ==
    LastCalled = "orient_for_topdown" =>
        /\ obj.applied = preObj.applied \o TablePlan(preObj.dims)
        /\ obj.rotation_euler = NoRotation
        /\ preObj.dims = ExampleExtents =>
              obj.applied = Append(preObj.applied, <<0, 0, 90>>)

\* the example mesh after one call: only the yaw was applied
C15_Witness ==
    /\ called = <<"orient_for_topdown">>
    /\ preObj.dims = ExampleExtents
    /\ obj.applied = << <<0, 0, 90>> >>
    /\ obj.dims = <<40, 120, 20>>

----------------------------------------------------------------------------
(* Properties of calculate_fill_ratio (SpecFill) *)

\* C5: for every numeric size s >= 0 the result of calculate_fill_ratio lies
\* between MIN_FILL_RATIO and MAX_FILL_RATIO.
C5_FillWithinBand ==
    ( pc = "filled" /\ ship_size # NoneSize )
    => /\ MIN_FILL_RATIO * FillUnit <= fill_ratio
       /\ fill_ratio <= MAX_FILL_RATIO * FillUnit

\* a size above the largest class, whose unclamped value exceeds the band
C5_Witness ==
    /\ pc = "filled"
    /\ ship_size > LARGEST_SIZE_METERS
    /\ fill_ratio = MAX_FILL_RATIO * FillUnit
    /\ other_size = 0
    /\ other_fill = MIN_FILL_RATIO * FillUnit

\* C6: calculate_fill_ratio is monotonic non-decreasing: for numeric sizes
\* 0 <= s1 <= s2, calculate_fill_ratio(s1) <= calculate_fill_ratio(s2).
C6_FillMonotonic ==
    ( /\ pc = "filled"
      /\ ship_size # NoneSize /\ other_size # NoneSize
      /\ ship_size <= other_size )
    => fill_ratio <= other_fill

\* two sizes strictly inside the band with strictly increasing results
C6_Witness ==
    /\ pc = "filled"
    /\ REFERENCE_SIZE_METERS < ship_size
    /\ ship_size < other_size
    /\ other_size < LARGEST_SIZE_METERS
    /\ MIN_FILL_RATIO * FillUnit < fill_ratio
    /\ fill_ratio < other_fill
    /\ other_fill < MAX_FILL_RATIO * FillUnit

\* C14: the fill band runs from 12% to 100%: the reference size of 75 m is
\* given a fill ratio of 0.12 and the largest size of 14000 m one of 1.0
C14_BandTwelveToHundred ==
    pc = "filled" =>
        /\ ship_size = REFERENCE_SIZE_METERS => fill_ratio = 12 * FillUnit
        /\ ship_size = LARGEST_SIZE_METERS => fill_ratio = 100 * FillUnit

----------------------------------------------------------------------------
(* Properties of render_ship (SpecRender) *)

PastOrient ==
    pc \in {"recenter2", "material", "camera", "camera_failed", "lights",
            "settings", "render", "done"}

PastLookup == pc = "orient" \/ PastOrient

\* C4: whenever the override table has an entry for the ship's key, whatever
\* its fields, orient_with_override is run and orient_for_topdown is not; in
\* every render exactly one of the two is run, exactly once.
C4_EntryReplacesAutomatic ==
    PastOrient =>
        /\ Len(called) = 1
        /\ ( ship_key \in DOMAIN orientations
             => called = <<"orient_with_override">> )

ListedOps ==
    {"import_mesh", "recenter", "apply_orientation", "assign_material",
     "place_camera", "place_lights", "render"}

IsListedOp(op) == op \in ListedOps

ListedOrder ==
    <<"import_mesh", "recenter", "apply_orientation", "recenter",
      "assign_material", "place_camera", "place_lights", "render">>

\* C8: a successful render_ship run drives the host through import,
\* recenter, orientation, recenter, material, camera, lights, render, in
\* this order and each once; the render is the last step, and at every
\* moment the steps done so far are an initial part of that order.
C8_HostOrder ==
    LET done == SelectSeq(ops, IsListedOp)
    IN  /\ Len(done) <= Len(ListedOrder)
        /\ done = SubSeq(ListedOrder, 1, Len(done))
        /\ ( pc = "done" => /\ done = ListedOrder
                            /\ ops[Len(ops)] = "render" )

\* a finished render whose orientation step applied two rotations
C8_Witness ==
    /\ pc = "done"
    /\ Len(ops) = 10
    /\ called = <<"orient_for_topdown">>
    /\ Len(obj.applied) = 2

----------------------------------------------------------------------------
(* Properties of the copy batch (SpecCopy) *)

\* the lines printed for the type IDs handled so far
ItemLines == SubSeq(printed, 2, idx + 1)

IsOkLine(line) == line[2] = "OK"
IsMissingLine(line) == line[2] \in {"NOT FOUND", "NO MAPPING"}

\* C9: a type ID without an entry in TYPE_MAP or without a source sprite
\* never stops the loop: the type IDs are handled in order, once per
\* occurrence, each one either counted in updated or recorded in missing,
\* the loop is only ever left early at a type ID that has both a mapping and
\* a source, and at the end updated + len(missing) = len(existing_ids).
C9_MissingNeverStopsBatch ==
    pc # "scan" =>
        /\ idx <= Len(existing_ids)
        /\ updated + Len(missing) = idx
        /\ \A i \in 1..idx : ItemLines[i][1] = existing_ids[i]
        /\ Len(SelectSeq(ItemLines, IsOkLine)) = updated
        /\ Len(SelectSeq(ItemLines, IsMissingLine)) = Len(missing)
        /\ ( pc = "crashed" => Current \in DOMAIN TYPE_MAP /\ Found # NoneFile )
        /\ ( pc = "done" => updated + Len(missing) = Len(existing_ids) )

\* a finished batch with the type ID 583 read twice and copied twice, one
\* type ID without mapping and one without source
C9_Witness ==
    /\ pc = "done"
    /\ Len(existing_ids) = 4
    /\ existing_ids[1] = 583 /\ existing_ids[2] = 583
    /\ updated = 2
    /\ Len(missing) = 2
    /\ \E i \in 1..idx : ItemLines[i][2] = "NOT FOUND"
    /\ \E i \in 1..idx : ItemLines[i][2] = "NO MAPPING"

\* C10: a failing file copy of one type ID is caught and the batch goes on:
\* the loop is never abandoned, so the remaining type IDs are processed and
\* the summary is printed.
C10_CopyFailureIsCaught ==
    ~( pc = "crashed" /\ idx < Len(existing_ids) )

----------------------------------------------------------------------------
(* Properties of the copy batch in any order (SpecCopyAnyOrder) *)

Range(seq) == { seq[i] : i \in 1..Len(seq) }

\* C11: for a fixed source tree and destination directory, the destination
\* directory, the updated count and the set of missing entries at the end are
\* those of the ascending order, whatever the order the type IDs are
\* processed in; and at every moment each file of the destination holds
\* either what it held at the start or what the ascending run leaves in it.
C11_OrderIndependent ==
    LET ref == MainOutcome(dest0, src_tree)
    IN  /\ \A k \in DOMAIN dest :
              \/ (k \in DOMAIN dest0 /\ dest[k] = dest0[k])
              \/ (k \in DOMAIN ref.dest /\ dest[k] = ref.dest[k])
        /\ Range(missing) \subseteq Range(ref.missing)
        /\ ( pc = "done" =>
               /\ dest = ref.dest
               /\ updated = ref.updated
               /\ Range(missing) = Range(ref.missing)
               /\ Len(missing) = Len(ref.missing) )

\* a finished batch that took the type IDs in descending order, with a
\* copy, an unfound and an unmapped type ID
C11_Witness ==
    /\ pc = "done"
    /\ existing_ids = <<24483, 999, 583>>
    /\ updated = 1
    /\ Len(missing) = 2
    /\ dest[Stem_583] # "original"

----------------------------------------------------------------------------
(* SpecFind: find_sprite on the queries of TYPE_MAP, over trees in every
   traversal order *)

MaxTreeLen == 3

\* the PNG files the trees of SpecFind are drawn from
FindFiles ==
    { SrcFile("caldari", <<"frigate">>,
              <<"B", "a", "n", "t", "a", "m", "_", "v", "2">>,
              "caldari/frigate/Bantam_v2.png"),
      SrcFile("caldari", <<"frigate">>, Name_bantam,
              "caldari/frigate/bantam.png"),
      SrcFile("caldari", <<>>, <<"B", "a", "n", "t", "a", "m">>,
              "caldari/Bantam.png"),
      SrcFile("caldari", <<"cruiser">>, Name_bantam,
              "caldari/cruiser/bantam.png"),
      SrcFile("amarr", <<"frigate">>, Name_bantam,
              "amarr/frigate/bantam.png"),
      SrcFile("pirate", <<"blood raiders">>, Lower(Name_Ashimmu),
              "pirate/blood raiders/ashimmu.png"),
      SrcFile("triglavian", <<>>, Name_damavik,
              "triglavian/damavik.png") }

\* the sequences of n distinct files
FileOrders(n) ==
    { t \in [1..n -> FindFiles] :
        \A a \in 1..n : \A b \in 1..n : t[a] = t[b] => a = b }

InitFind ==
    /\ pc = "find"
    /\ IdleOrient
    /\ IdleFill
    /\ IdleRender
    /\ IdleCopy
    /\ \E type_id \in DOMAIN TYPE_MAP : query = TYPE_MAP[type_id]
    /\ \E n \in 0..MaxTreeLen : png_tree \in FileOrders(n)
    /\ sprite = NoneFile
    /\ IdleMain
    /\ IdleShot
    /\ IdleAudit

\* src = find_sprite(faction, ship_class, name)
CallFindSprite ==
    /\ pc = "find"
    /\ sprite' = find_sprite(query[1], query[2], query[3], png_tree)
    /\ pc' = "returned"
    /\ UNCHANGED <<query, png_tree>>
    /\ UNCHANGED <<orientVars, fillVars, renderVars, copyVars, mainVars,
                   shotVars, auditVars>>

NextFind == CallFindSprite

SpecFind == InitFind /\ [][NextFind]_vars

----------------------------------------------------------------------------
(* SpecMain: main of render_ship.py, from sys.argv to the end of the process *)

MaxArgs == 4

\* the words sys.argv is made of
ArgWords ==
    {"blender", "--", "ship.stl", "gone.stl", "out/amarr/frigate/punisher.png",
     "256", "abc"}

\* os.path.exists: the files on disk
ExistingFiles == {"ship.stl"}

\* int(argv[2]) returns for these words and raises ValueError for the others
IntWords == {"256"}

\* an argument word as the list of parts of a path
PathOf(w) ==
    CASE w = "out/amarr/frigate/punisher.png" ->
             <<Dir("out"), Dir("amarr"), Dir("frigate"), File("punisher", "png")>>
      [] w = "ship.stl" -> <<File("ship", "stl")>>
      [] w = "gone.stl" -> <<File("gone", "stl")>>
      [] OTHER -> <<File(w, "")>>

\* argv.index("--")
IndexOf(seq, w) == CHOOSE i \in 1..Len(seq) : seq[i] = w /\ \A j \in 1..(i - 1) : seq[j] # w

\* argv[argv.index("--") + 1:]
AfterDashes(seq) == SubSeq(seq, IndexOf(seq, "--") + 1, Len(seq))

HasDashes(seq) == \E i \in 1..Len(seq) : seq[i] = "--"

\* exit status of the host after an exception no handler catches: 1 from
\* the Python interpreter, 0 from a host that goes on after a failed script
UncaughtExitStatus == {0, 1}

\* what json.load can hand back for ship_orientations.json
LoadableOrientations ==
    { MkTable({}),
      MkTable({<<KeyFull, MkOverride({"axis"}, "x", 0, FALSE, 0, 0, 0, DefaultScale)>>}),
      MkTable({<<KeyFull, MkOverride({"scale"}, "z", 0, FALSE, 0, 0, 0, 0)>>}) }

\* what json.load can hand back for ship_sizes.json
LoadableSizes == { MkSizes({}, FALSE, {}), MkSizes({<<KeyFull, 5000>>}, FALSE, {}) }

InitMain ==
    /\ pc = "main"
    /\ obj \in { NewObject(<<3, 2, 1>>), NewObject(<<1, 2, 1>>) }
    /\ preObj = obj
    /\ override = NoneOverride
    /\ called = <<>>
    /\ IdleFill
    /\ IdleRender
    /\ IdleCopy
    /\ IdleFind
    /\ \E n \in 0..MaxArgs : argv \in [1..n -> ArgWords]
    /\ exit_status = NoneStatus
    /\ loaded = <<>>
    /\ stdout = <<>>
    /\ IdleShot
    /\ IdleAudit

\* sys.exit(1) after a message
ExitOne(message) ==
    /\ stdout' = Append(stdout, message)
    /\ exit_status' = 1
    /\ pc' = "exited"
    /\ UNCHANGED output_png

\* main up to the existence test of the input file
ParseArgs ==
    /\ pc = "main"
    /\ IF ~HasDashes(argv)
       THEN ExitOne("Usage")
       ELSE LET rest == AfterDashes(argv)
            IN  IF Len(rest) < 2
                THEN ExitOne("Usage")
                ELSE IF Len(rest) > 2 /\ rest[3] \notin IntWords
                THEN /\ pc' = "uncaught"
                     /\ UNCHANGED <<stdout, exit_status, output_png>>
                ELSE IF rest[1] \notin ExistingFiles
                THEN ExitOne("Error: Input file not found")
                ELSE /\ output_png' = PathOf(rest[2])
                     /\ pc' = "load_orientations"
                     /\ UNCHANGED <<stdout, exit_status>>
    /\ UNCHANGED <<argv, loaded>>
    /\ UNCHANGED <<orientVars, fillVars, orientations, sizes, ship_key, ops,
                   copyVars, findVars, shotVars, auditVars>>

\* orientations = load_orientations() and the count that is printed
LoadOrientations ==
    /\ pc = "load_orientations"
    /\ loaded' = Append(loaded, "orientations")
    /\ \/ /\ orientations' \in LoadableOrientations
          /\ stdout' = IF DOMAIN orientations' # {}
                       THEN Append(stdout, "Loaded orientation overrides")
                       ELSE stdout
          /\ pc' = "load_sizes"
       \/ /\ pc' = "uncaught"     \* json.load raises on a malformed file
          /\ UNCHANGED <<orientations, stdout>>
    /\ UNCHANGED <<argv, exit_status>>
    /\ UNCHANGED <<orientVars, fillVars, output_png, sizes, ship_key, ops,
                   copyVars, findVars, shotVars, auditVars>>

\* sizes = load_ship_sizes() and the count that is printed
LoadShipSizes ==
    /\ pc = "load_sizes"
    /\ loaded' = Append(loaded, "sizes")
    /\ \/ /\ sizes' \in LoadableSizes
          /\ stdout' = IF ~SizesFalsy(sizes')
                       THEN Append(stdout, "Loaded ship sizes")
                       ELSE stdout
          /\ pc' = "clear"
       \/ /\ pc' = "uncaught"
          /\ UNCHANGED <<sizes, stdout>>
    /\ UNCHANGED <<argv, exit_status>>
    /\ UNCHANGED <<orientVars, fillVars, output_png, orientations, ship_key, ops,
                   copyVars, findVars, shotVars, auditVars>>

\* an exception leaves main: the host ends the process
Uncaught ==
    /\ pc \in {"uncaught", "import_failed", "camera_failed"}
    /\ exit_status' \in UncaughtExitStatus
    /\ pc' = "exited"
    /\ UNCHANGED <<argv, loaded, stdout>>
    /\ UNCHANGED <<orientVars, fillVars, renderVars, copyVars, findVars,
                   shotVars, auditVars>>

\* render_ship returns and main with it
MainReturns ==
    /\ pc = "done"
    /\ exit_status' = 0
    /\ pc' = "exited"
    /\ UNCHANGED <<argv, loaded, stdout>>
    /\ UNCHANGED <<orientVars, fillVars, renderVars, copyVars, findVars,
                   shotVars, auditVars>>

NextMain ==
    \/ ParseArgs \/ LoadOrientations \/ LoadShipSizes
    \/ NextRender
    \/ Uncaught \/ MainReturns

SpecMain == InitMain /\ [][NextMain]_vars

----------------------------------------------------------------------------
(* SpecSheet: the layouts of create_contact_sheet and create_master_sheet *)

MaxSprites == 13
MaxCols == 4
MaxFactions == 2

\* values of --size
ThumbSizes == {1, 128}

ContactLabelHeight == 20
ContactHeaderHeight == 40
MasterLabelHeight == 16
MasterHeaderHeight == 30
MasterThumbSize == 96
MasterCols == 12

\* rows = n // cols, rounded down
Rows_floor(n, cols) == n \div cols

\* rows = (len(sprites) + cols - 1) // cols
Rows(n, cols) == (n + cols - 1) \div cols

\* the cell of sprite index of block k, whose rows start at rows_top
Cell(k, index, cols, rows_top, cell_width, cell_height) ==
    LET row == index \div cols
        col == index % cols
    IN  [block |-> k, idx |-> index, row |-> row, col |-> col,
         x |-> 10 + col * cell_width, y |-> rows_top + row * cell_height,
         w |-> cell_width, h |-> cell_height]

NoLayout == [width |-> 0, height |-> 0, cells |-> {}, blocks |-> <<>>]

\* create_contact_sheet for n sprites: None for an empty list
create_contact_sheet(n, thumb_size, cols) ==
    IF n = 0 THEN NoLayout
    ELSE
    LET cell_width == thumb_size
        cell_height == thumb_size + ContactLabelHeight
        rows == Rows(n, cols)
        header_height == ContactHeaderHeight
    IN  [width |-> cols * cell_width + 20,
         height |-> header_height + rows * cell_height + 20,
         cells |-> { Cell(1, index, cols, header_height + 10, cell_width, cell_height) :
                       index \in 0..(n - 1) },
         blocks |-> << [top |-> 0, rows_top |-> header_height + 10, drawn |-> TRUE] >>]

\* what the loop of create_master_sheet adds to y_offset for a faction
BlockAdvance(n, cols, cell_height) ==
    IF n = 0 THEN 0
    ELSE MasterHeaderHeight + Rows(n, cols) * cell_height + 10

\* y_offset when the loop reaches faction k
RECURSIVE YOffset(_, _, _, _)
YOffset(counts, k, cols, cell_height) ==
    IF k = 1 THEN 10
    ELSE YOffset(counts, k - 1, cols, cell_height)
         + BlockAdvance(counts[k - 1], cols, cell_height)

\* total_height, which counts a header for every faction
RECURSIVE TotalHeight(_, _, _, _)
TotalHeight(counts, k, cols, cell_height) ==
    IF k = 0 THEN 20
    ELSE TotalHeight(counts, k - 1, cols, cell_height)
         + MasterHeaderHeight + Rows(counts[k], cols) * cell_height + 10

\* create_master_sheet for the factions in sorted order, counts[k] sprites each
create_master_sheet(counts, thumb_size, cols) ==
    LET cell_width == thumb_size
        cell_height == thumb_size + MasterLabelHeight
        top(k) == YOffset(counts, k, cols, cell_height)
    IN  [width |-> cols * cell_width + 20,
         height |-> TotalHeight(counts, Len(counts), cols, cell_height),
         cells |-> UNION { { Cell(k, index, cols, top(k) + MasterHeaderHeight,
                                  cell_width, cell_height) :
                               index \in 0..(counts[k] - 1) } :
                           k \in 1..Len(counts) },
         blocks |-> [k \in 1..Len(counts) |->
                       [top |-> top(k), rows_top |-> top(k) + MasterHeaderHeight,
                        drawn |-> counts[k] > 0]]]

InitSheet ==
    /\ pc = "layout"
    /\ IdleOrient
    /\ IdleFill
    /\ IdleRender
    /\ IdleCopy
    /\ IdleFind
    /\ IdleMain
    /\ IdleShot
    /\ \/ \E n \in 0..MaxSprites, c \in 1..MaxCols, t \in ThumbSizes :
            layout_in = [kind |-> "contact", counts |-> <<n>>, cols |-> c,
                         thumb_size |-> t]
       \/ \E m \in 0..MaxFactions : \E counts \in [1..m -> 0..MaxSprites] :
            layout_in = [kind |-> "master", counts |-> counts, cols |-> MasterCols,
                         thumb_size |-> MasterThumbSize]
    /\ layout = NoLayout
    /\ audit_tree = <<>>
    /\ audit_args = [output |-> "", all |-> FALSE]
    /\ runs = <<>>

CreateContactSheet ==
    /\ pc = "layout"
    /\ layout_in.kind = "contact"
    /\ layout' = create_contact_sheet(layout_in.counts[1], layout_in.thumb_size,
                                      layout_in.cols)
    /\ pc' = "drawn"
    /\ UNCHANGED <<layout_in, audit_tree, audit_args, runs>>
    /\ UNCHANGED <<orientVars, fillVars, renderVars, copyVars, findVars, mainVars,
                   shotVars>>

CreateMasterSheet ==
    /\ pc = "layout"
    /\ layout_in.kind = "master"
    /\ layout' = create_master_sheet(layout_in.counts, layout_in.thumb_size,
                                     layout_in.cols)
    /\ pc' = "drawn"
    /\ UNCHANGED <<layout_in, audit_tree, audit_args, runs>>
    /\ UNCHANGED <<orientVars, fillVars, renderVars, copyVars, findVars, mainVars,
                   shotVars>>

NextSheet == CreateContactSheet \/ CreateMasterSheet

SpecSheet == InitSheet /\ [][NextSheet]_vars

----------------------------------------------------------------------------
(* SpecAudit: main of generate_audit_sheet.py, run again and again on the
   same base_dir. A PNG is named by the pieces its stem is put together
   from; a directory holds the names found below it. *)

MaxAuditRuns == 2

\* the directory names find_sprites passes over
SkippedDirs == {"sheets", "EvE-3D-Printing", "audit_sheets"}

\* values of --output, the default among them
OutputNames == {"audit_sheets", "sheets", "qa", "amarr"}

FilesOf(tree, d) == IF d \in DOMAIN tree THEN tree[d] ELSE {}

\* img.save into directory d, made if it is not there
WriteFiles(tree, d, names) ==
    [x \in DOMAIN tree \cup {d} |->
        IF x = d THEN FilesOf(tree, d) \cup names ELSE tree[x]]

\* the sprites by faction: a faction has an entry once a PNG is found in it;
\* the sorted list of a faction is determined by the set of its files
find_sprites(tree) ==
    [d \in { x \in DOMAIN tree : x \notin SkippedDirs /\ tree[x] # {} } |-> tree[d]]

\* f"{faction}_audit.png" for every faction, and the master sheet with --all
SheetsFor(sprites, all) ==
    { <<f, "_audit">> : f \in DOMAIN sprites }
    \cup (IF all THEN { <<"ALL_SPRITES", "_audit">> } ELSE {})

InitAudit ==
    /\ pc = "audit"
    /\ IdleOrient
    /\ IdleFill
    /\ IdleRender
    /\ IdleCopy
    /\ IdleFind
    /\ IdleMain
    /\ IdleShot
    /\ layout_in = [kind |-> "none", counts |-> <<>>, cols |-> 0, thumb_size |-> 0]
    /\ layout = NoLayout
    /\ \E a \in SUBSET { <<"punisher">>, <<"omen">> }, c \in SUBSET { <<"bantam">> } :
          audit_tree = [d \in {"amarr", "caldari"} |-> IF d = "amarr" THEN a ELSE c]
    /\ \E o \in OutputNames, all \in BOOLEAN :
          audit_args = [output |-> o, all |-> all]
    /\ runs = <<>>

\* one run of main
RunAudit ==
    /\ pc = "audit"
    /\ Len(runs) < MaxAuditRuns
    /\ LET sprites == find_sprites(audit_tree)
           sheets == SheetsFor(sprites, audit_args.all)
       IN  IF DOMAIN sprites = {}
           THEN /\ runs' = Append(runs, [found |-> sprites, written |-> {},
                                         status |-> 1])
                /\ UNCHANGED audit_tree
           ELSE /\ audit_tree' = WriteFiles(audit_tree, audit_args.output, sheets)
                /\ runs' = Append(runs, [found |-> sprites, written |-> sheets,
                                         status |-> 0])
    /\ UNCHANGED <<pc, layout_in, layout, audit_args>>
    /\ UNCHANGED <<orientVars, fillVars, renderVars, copyVars, findVars, mainVars,
                   shotVars>>

NextAudit == RunAudit

SpecAudit == InitAudit /\ [][NextAudit]_vars

----------------------------------------------------------------------------
(* SpecFaction: get_ship_key and get_faction_from_path on the same path *)

MaxDirs == 3

\* directory names of the output paths
DirNames ==
    {"out", "amarr", "AMARR", "pirate", "special_edition", "raiders", "frigate"}

\* output paths: up to MaxDirs directories and a last part
FactionPaths ==
    { [i \in 1..Len(names) |-> Dir(names[i])] \o <<last>> :
        names \in UNION { [1..k -> DirNames] : k \in 0..MaxDirs },
        last \in { File("punisher", "png"), Dir("amarr") } }

InitFaction ==
    /\ pc = "path"
    /\ IdleOrient
    /\ IdleFill
    /\ output_png \in FactionPaths
    /\ orientations = MkTable({})
    /\ sizes = NoneSizes
    /\ ship_key = NoneKey
    /\ ops = <<>>
    /\ IdleCopy
    /\ IdleFind
    /\ IdleMain
    /\ IdleShot
    /\ IdleAudit

\* ship_key = get_ship_key(output_png) and
\* faction = get_faction_from_path(output_png) of render_ship
DetectFaction ==
    /\ pc = "path"
    /\ ship_key' = get_ship_key(output_png)
    /\ mat_faction' = get_faction_from_path(output_png)
    /\ pc' = "detected"
    /\ UNCHANGED <<output_png, orientations, sizes, ops, ortho_scale>>
    /\ UNCHANGED <<orientVars, fillVars, copyVars, findVars, mainVars, auditVars>>

NextFaction == DetectFaction

SpecFaction == InitFaction /\ [][NextFaction]_vars

----------------------------------------------------------------------------
(* Properties of find_sprite *)

\* f is a PNG of the queried faction whose stem equals or contains the name,
\* case-insensitively
Qualifies(f) ==
    /\ f.faction = query[1]
    /\ \/ Lower(f.stem) = Lower(query[3])
       \/ IsSubstring(Lower(query[3]), Lower(f.stem))

Qualifying == { i \in 1..Len(png_tree) : Qualifies(png_tree[i]) }

\* some file of the tree is SRC_DIR / faction / dirs / stem.png
Exists(dirs, stem) ==
    \E i \in 1..Len(png_tree) :
        /\ png_tree[i].faction = query[1]
        /\ png_tree[i].dirs = dirs
        /\ png_tree[i].stem = stem

SpriteIs(dirs, stem) ==
    /\ sprite.faction = query[1]
    /\ sprite.dirs = dirs
    /\ sprite.stem = stem

\* C12: find_sprite returns a file exactly when some PNG of the faction's
\* subtree has a stem equal to or containing the name, case-insensitively;
\* the file returned is such a file of the tree; the direct paths are tried
\* first, in their order, and otherwise the first qualifying file of the
\* traversal is returned, exact or not
C12_FindSprite ==
    pc = "returned" =>
        LET cls == ClassDirs(query[2])
            d1 == Exists(cls, query[3])
            d2 == Exists(cls, Lower(query[3]))
            d3 == Exists(<<>>, query[3])
        IN  /\ (sprite # NoneFile) <=> (Qualifying # {})
            /\ sprite # NoneFile =>
                 /\ \E i \in 1..Len(png_tree) : png_tree[i] = sprite
                 /\ Qualifies(sprite)
            /\ d1 => SpriteIs(cls, query[3])
            /\ ~d1 /\ d2 => SpriteIs(cls, Lower(query[3]))
            /\ ~d1 /\ ~d2 /\ d3 => SpriteIs(<<>>, query[3])
            /\ ~d1 /\ ~d2 /\ ~d3 /\ Qualifying # {} =>
                 sprite = png_tree[CHOOSE i \in Qualifying :
                                      \A j \in Qualifying : i <= j]

\* a substring match is returned although an exact match comes later in the
\* traversal
C12_Witness ==
    /\ pc = "returned"
    /\ Len(png_tree) = 2
    /\ png_tree[1].tag = "caldari/frigate/Bantam_v2.png"
    /\ png_tree[2].tag = "caldari/cruiser/bantam.png"
    /\ sprite = png_tree[1]

----------------------------------------------------------------------------
(* Properties of main of render_ship.py *)

\* the arguments lack "--", or fewer than two follow it, or the input file
\* does not exist
BadArguments ==
    \/ ~HasDashes(argv)
    \/ Len(AfterDashes(argv)) < 2
    \/ AfterDashes(argv)[1] \notin ExistingFiles

\* C13: with arguments lacking "--", fewer than two paths after it, or an
\* input file that does not exist, the renderer ends with exit status 1 and
\* has loaded no configuration and driven the host through no operation
C13_BadArgumentsExitOne ==
    (pc = "exited" /\ BadArguments) =>
        /\ exit_status = 1
        /\ loaded = <<>>
        /\ ops = <<>>

----------------------------------------------------------------------------
(* Properties of setup_camera_topdown (SpecRender) *)

CameraPlaced == \E i \in 1..Len(ops) : ops[i] = "place_camera"

NoScaleGiven == ~(Truthy(override) /\ "scale" \in override.keys)

\* C16: when the override gives no 'scale', ortho_scale is model_extent /
\* fill_ratio with model_extent the larger of the X and Y extents, so the
\* ship takes the fraction fill_ratio of the frame, which is at most 1.0
C16_CameraRealisesFill ==
    ( CameraPlaced /\ NoScaleGiven ) =>
        /\ ortho_scale.model_extent = ModelExtent(obj)
        /\ ortho_scale.target_fill = 10 * fill_ratio
        /\ ortho_scale.target_fill <= 1000 * FillUnit

----------------------------------------------------------------------------
(* Properties of the sheet layouts (SpecSheet) *)

\* the least r with r * cols >= n
CeilDiv(n, cols) == CHOOSE r \in 0..n : r * cols >= n /\ \A q \in 0..(r - 1) : q * cols < n

\* two cells share no pixel
Apart(c, d) ==
    \/ c.x + c.w <= d.x
    \/ d.x + d.w <= c.x
    \/ c.y + c.h <= d.y
    \/ d.y + d.h <= c.y

\* C17: every sprite index of every faction has its own cell with
\* row = idx // cols, col = idx % cols < cols and row < ceil(n / cols); no two
\* cells overlap; every cell, thumbnail and label strip, lies inside the
\* image; in the master sheet the block of a faction ends before the header
\* of the next one starts and the last block ends within the total height
C17_SheetLayout ==
    pc = "drawn" =>
        LET counts == layout_in.counts
            cols == layout_in.cols
            OfSprite(k, index) == { c \in layout.cells : c.block = k /\ c.idx = index }
        IN  /\ \A k \in 1..Len(counts) : \A index \in 0..(counts[k] - 1) :
                  Cardinality(OfSprite(k, index)) = 1
            /\ \A c \in layout.cells :
                  /\ c.block \in 1..Len(counts)
                  /\ c.idx \in 0..(counts[c.block] - 1)
                  /\ c.row = c.idx \div cols
                  /\ c.col = c.idx % cols
                  /\ c.col < cols
                  /\ c.row < CeilDiv(counts[c.block], cols)
                  /\ 0 <= c.x /\ c.x + c.w <= layout.width
                  /\ 0 <= c.y /\ c.y + c.h <= layout.height
                  /\ c.w = layout_in.thumb_size /\ c.h > layout_in.thumb_size
                  /\ layout.blocks[c.block].rows_top <= c.y
            /\ \A c \in layout.cells : \A d \in layout.cells :
                  c # d => Apart(c, d)
            /\ \A c \in layout.cells : \A k \in 1..Len(layout.blocks) :
                  ( c.block < k /\ layout.blocks[k].drawn ) =>
                      c.y + c.h <= layout.blocks[k].top
            /\ \A k \in 1..Len(layout.blocks) :
                  /\ 0 <= layout.blocks[k].top
                  /\ layout.blocks[k].top < layout.blocks[k].rows_top
                  /\ layout.blocks[k].rows_top <= layout.height

\* a master sheet of two factions, the first with a second row of one sprite
C17_Witness ==
    /\ pc = "drawn"
    /\ layout_in.kind = "master"
    /\ layout_in.counts = <<13, 1>>
    /\ \E c \in layout.cells : c.block = 1 /\ c.row = 1 /\ c.col = 0
    /\ \E c \in layout.cells : c.block = 2 /\ c.idx = 0

----------------------------------------------------------------------------
(* Properties of the audit generator (SpecAudit) *)

\* C18: for every value of --output the second run on an unchanged sprite
\* tree finds the sprite set of the first run and writes the same sheets
C18_SecondRunSame ==
    Len(runs) >= 2 =>
        /\ runs[2].found = runs[1].found
        /\ runs[2].written = runs[1].written

----------------------------------------------------------------------------
(* Properties of the faction detection (SpecFaction) *)

HasPreset(f) == \E k \in 1..Len(FactionMaterialKeys) : FactionMaterialKeys[k] = f

\* C19: for every output path that has a ship key, the faction used for the
\* material is the first component of the key, or '_default' when that
\* faction has no material preset
C19_MaterialFactionIsKeyFaction ==
    ( pc = "detected" /\ ship_key # NoneKey ) =>
        \/ mat_faction = ship_key[1]
        \/ mat_faction = "_default" /\ ~HasPreset(ship_key[1])

----------------------------------------------------------------------------
(* Frame of the copy batch (SpecCopy) *)

\* C20: after main the destination holds the file names it held before, the
\* files whose stem is not an integer are as they were, and only files named
\* by a type ID that was read have new contents
C20_OnlyRefreshesExisting ==
    pc = "done" =>
        /\ DOMAIN dest = DOMAIN dest0
        /\ \A k \in DOMAIN dest0 : ~IsInt(k) => dest[k] = dest0[k]
        /\ \A k \in DOMAIN dest0 :
              dest[k] # dest0[k] =>
                  \E i \in 1..Len(existing_ids) : FormatInt(existing_ids[i]) = k
====
